---- MODULE Spec2Model ----
(***************************************************************************)
(* FALCON: the conversation store (FALCONDatabase), the tool dispatcher    *)
(* and the orchestration loop (FALCONAssistant.process_message) of         *)
(* src/Backend/Brain.py, with the UI entry process_user_query of           *)
(* src/Falcon.py.                                                          *)
(*                                                                         *)
(* Texts are sequences of one-character strings; Python None / SQL NULL is *)
(* the sentinel Null, which is no sequence of characters.  Fixed strings   *)
(* of the program (status and error messages) are one-token sequences.     *)
(***************************************************************************)
EXTENDS Integers, Sequences, FiniteSets, TLC

\* ------------------------------------------------------------------ bounds
MaxTurns == 1       \* calls of process_message in one session
MaxClock == 1       \* seconds the wall clock may advance
NumProcs == 2       \* callers that may run process_message
MaxStoreRows == 3   \* rows the store may hold under SpecStore
MaxHistRows == 21   \* rows of the stores SpecHistory draws

Procs == 1..NumProcs

\* ------------------------------------------------------------------- texts
Null == <<"NULL">>

IsWhitespace(c) == c = " "

RECURSIVE LStrip(_)
LStrip(s) ==
    IF s = <<>> THEN <<>>
    ELSE IF IsWhitespace(Head(s)) THEN LStrip(Tail(s)) ELSE s

RECURSIVE RStrip(_)
RStrip(s) ==
    IF s = <<>> THEN <<>>
    ELSE IF IsWhitespace(s[Len(s)]) THEN RStrip(SubSeq(s, 1, Len(s) - 1)) ELSE s

\* str.strip(): leading and trailing whitespace removed
Strip(s) == RStrip(LStrip(s))

\* Python truthiness of an optional string: None and "" are falsy
Truthy(s) == s # Null /\ s # <<>>

\* ------------------------------------------------------- conversation store
\* one row of the table conversations
Row(id, user, assistant, timestamp) ==
    [id |-> id, user |-> user, assistant |-> assistant, timestamp |-> timestamp]

\* AUTOINCREMENT: one more than the largest id ever used (rows are never deleted)
NextId(st) == Len(st) + 1

\* INSERT INTO conversations (user, assistant) VALUES (?, ?); timestamp defaults to now
add_conversation(st, user_message, assistant_message, now) ==
    Append(st, Row(NextId(st), user_message, assistant_message, now))

\* the UPDATE executed but never committed: the row keeps what it had
update_not_committed(st, conversation_id, assistant_message) == st

\* the UPDATE aimed at the row inserted last, whoever inserted it
update_latest_row(st, conversation_id, assistant_message) ==
    [i \in DOMAIN st |->
        IF i = Len(st)
        THEN [st[i] EXCEPT !.assistant = assistant_message]
        ELSE st[i]]

\* UPDATE conversations SET assistant = ? WHERE id = ?
update_assistant_response(st, conversation_id, assistant_message) ==
    [i \in DOMAIN st |->
        IF st[i].id = conversation_id
        THEN [st[i] EXCEPT !.assistant = assistant_message]
        ELSE st[i]]

\* SQLite's LIKE folds the case of ASCII letters
Fold(c) ==
    CASE c = "A" -> "a"
      [] c = "B" -> "b"
      [] c = "C" -> "c"
      [] c = "D" -> "d"
      [] OTHER -> c

\* text LIKE pattern: % stands for any run of characters, _ for any one
\* character, every other character for itself in either case
RECURSIVE like(_, _)
like(pattern, text) ==
    IF pattern = <<>> THEN text = <<>>
    ELSE IF Head(pattern) = "%"
    THEN \/ like(Tail(pattern), text)
         \/ text # <<>> /\ like(pattern, Tail(text))
    ELSE /\ text # <<>>
         /\ (Head(pattern) = "_" \/ Fold(Head(pattern)) = Fold(Head(text)))
         /\ like(Tail(pattern), Tail(text))

\* column LIKE ? with f'%{keyword}%'; NULL LIKE ? is NULL, which is not true
Like(column, keyword) ==
    column # Null /\ like(<<"%">> \o keyword \o <<"%">>, column)

\* insert r into the sequence s sorted newest first, after every row that is
\* not earlier
RECURSIVE InsertDesc(_, _)
InsertDesc(s, r) ==
    IF s = <<>> THEN <<r>>
    ELSE IF s[Len(s)].timestamp >= r.timestamp THEN Append(s, r)
    ELSE Append(InsertDesc(SubSeq(s, 1, Len(s) - 1), r), s[Len(s)])

\* ORDER BY timestamp DESC; rows of one second stay in table order
RECURSIVE OrderByTimestampDesc(_)
OrderByTimestampDesc(s) ==
    IF s = <<>> THEN <<>>
    ELSE InsertDesc(OrderByTimestampDesc(SubSeq(s, 1, Len(s) - 1)), s[Len(s)])

\* SELECT user, assistant, timestamp
Fetched(rows) == [i \in DOMAIN rows |->
                    << rows[i].user, rows[i].assistant, rows[i].timestamp >>]

search_conversations(st, keyword) ==
    Fetched(OrderByTimestampDesc(
        SelectSeq(st, LAMBDA r : Like(r.user, keyword) \/ Like(r.assistant, keyword))))

\* no exception left the call
NoError == ""

\* the exception update_assistant_response raises: the cursor's rowcount is
\* never read, so a statement that matched no row ends like one that did
update_error(st, conversation_id) == NoError

\* the SELECT without its WHERE clause: every row, drafts too
AllRows(st) == st

\* WHERE assistant IS NOT NULL, rows in table (rowid) order
Completed(st) == SelectSeq(st, LAMBDA r : r.assistant # Null)

\* insert r into the sorted sequence s, after every row that is not later
RECURSIVE InsertAsc(_, _)
InsertAsc(s, r) ==
    IF s = <<>> THEN <<r>>
    ELSE IF s[Len(s)].timestamp <= r.timestamp THEN Append(s, r)
    ELSE Append(InsertAsc(SubSeq(s, 1, Len(s) - 1), r), s[Len(s)])

\* ORDER BY timestamp ASC; rows of one second stay in rowid order
RECURSIVE OrderByTimestampAsc(_)
OrderByTimestampAsc(s) ==
    IF s = <<>> THEN <<>>
    ELSE InsertAsc(OrderByTimestampAsc(SubSeq(s, 1, Len(s) - 1)), s[Len(s)])

\* LIMIT ? is added only when limit is truthy (None and 0 mean no limit)
NoLimit == 0
Limit(s, limit) ==
    IF limit # NoLimit /\ Len(s) > limit THEN SubSeq(s, 1, limit) ELSE s

\* a chat message; tool_call_id and tool_calls are absent ("", <<>>) on plain ones
Message(role, content) ==
    [role |-> role, content |-> content, tool_call_id |-> "", tool_calls |-> <<>>]

\* the two role entries of one fetched row; the assistant one only if truthy
RowMessages(r) ==
    IF Truthy(r.assistant)
    THEN << Message("user", r.user), Message("assistant", r.assistant) >>
    ELSE << Message("user", r.user) >>

RECURSIVE FlattenRows(_)
FlattenRows(rows) ==
    IF rows = <<>> THEN <<>>
    ELSE RowMessages(Head(rows)) \o FlattenRows(Tail(rows))

\* the rows the SELECT of get_conversation_history fetches
HistoryRows(st, limit) == Limit(OrderByTimestampAsc(Completed(st)), limit)

get_conversation_history(st, limit) == FlattenRows(HistoryRows(st, limit))

\* ------------------------------------------------------------ tool registry
\* a schema whose third tool declares a parameter the dispatcher never reads,
\* and which advertises a tool the dispatcher does not route
tools_drifted ==
    << [name |-> "execute_system_task", properties |-> {"task_description"},
        required |-> <<"task_description">>],
       [name |-> "generate_image", properties |-> {"prompt"},
        required |-> <<"prompt">>],
       [name |-> "write_content", properties |-> {"subject"},
        required |-> <<"subject">>],
       [name |-> "play_music", properties |-> {"song"},
        required |-> <<"song">>] >>

\* self.tools: the schema advertised to the model (name, parameters, required)
tools ==
    << [name |-> "execute_system_task", properties |-> {"task_description"},
        required |-> <<"task_description">>],
       [name |-> "generate_image", properties |-> {"prompt"},
        required |-> <<"prompt">>],
       [name |-> "write_content", properties |-> {"topic"},
        required |-> <<"topic">>] >>

\* tool_call.function.arguments: a JSON text, here by what json.loads makes of it:
\* malformed text, or an object given as its set of <<key, value>> members
Arguments(wellformed, obj) == [wellformed |-> wellformed, obj |-> obj]

ToolCall(id, name, arguments) == [id |-> id, name |-> name, arguments |-> arguments]

HasKey(obj, k) == \E m \in obj : m[1] = k
GetKey(obj, k) == (CHOOSE m \in obj : m[1] = k)[2]

\* what a call returns: a text, or an exception (raised # "")
Returned(text) == [raised |-> "", text |-> text, handler |-> ""]
Raised(reason) == [raised |-> reason, text |-> Null, handler |-> ""]
Handled(handler, text) == [raised |-> "", text |-> text, handler |-> handler]

\* outcomes of a collaborator call (run_task, ImageGenMain, Coder)
CollaboratorOutcomes == {"ok", "raise"}

execute_system_task(task_description, collab) ==
    IF collab = "raise"
    THEN <<"Task execution failed: ", "reason">>
    ELSE <<"Task executed successfully.">>

generate_image(prompt, collab) ==
    IF collab = "raise"
    THEN <<"Image generation failed: ", "reason">>
    ELSE <<"Image generated successfully and opened for viewing.">>

write_content(topic, collab) ==
    IF collab = "raise"
    THEN <<"Content generation failed: ", "reason">>
    ELSE <<"Content generated successfully and saved to file.">>

\* json.loads, then the route by name; function_args[key] is a KeyError if absent
execute_tool_call(tool_call, collab) ==
    IF ~tool_call.arguments.wellformed THEN Raised("JSONDecodeError")
    ELSE LET function_name == tool_call.name
             function_args == tool_call.arguments.obj
         IN  IF function_name = "execute_system_task"
             THEN IF HasKey(function_args, "task_description")
                  THEN Handled(function_name, execute_system_task(
                           GetKey(function_args, "task_description"), collab))
                  ELSE Raised("KeyError")
             ELSE IF function_name = "generate_image"
             THEN IF HasKey(function_args, "prompt")
                  THEN Handled(function_name, generate_image(
                           GetKey(function_args, "prompt"), collab))
                  ELSE Raised("KeyError")
             ELSE IF function_name = "write_content"
             THEN IF HasKey(function_args, "topic")
                  THEN Handled(function_name, write_content(
                           GetKey(function_args, "topic"), collab))
                  ELSE Raised("KeyError")
             ELSE Returned(<<"Unknown function called.">>)

\* --------------------------------------------------------------- the inputs
\* utterances a caller may pass
Utterances == { <<>>, <<" ">>, <<"a">> }

\* message.content of a model response
ModelContents == { Null, <<" ">>, <<"b", " ">> }

\* tool invocations a model response may carry
ModelToolCalls ==
    { ToolCall("c1", "execute_system_task",
               Arguments(TRUE, {<<"task_description", <<"x">> >>})),
      ToolCall("c2", "generate_image", Arguments(TRUE, {<<"prompt", <<"x">> >>})),
      ToolCall("c3", "write_content", Arguments(TRUE, {<<"topic", <<"x">> >>})),
      ToolCall("c4", "nonexistent_tool", Arguments(TRUE, {})),
      ToolCall("c5", "execute_system_task", Arguments(FALSE, {})),
      ToolCall("c6", "generate_image", Arguments(TRUE, {})) }

Call(id) == CHOOSE c \in ModelToolCalls : c.id = id

\* response_message.tool_calls: none, one invocation, or several, among them
\* a repeated one, ones in either order, and ones after a call that cannot
\* be decoded or routed
ToolCallLists ==
    { <<>> } \cup { <<c>> : c \in ModelToolCalls }
    \cup { << Call("c1"), Call("c2") >>, << Call("c2"), Call("c1") >>,
           << Call("c3"), Call("c3") >>, << Call("c4"), Call("c3") >>,
           << Call("c5"), Call("c1") >>, << Call("c2"), Call("c6") >>,
           << Call("c3"), Call("c4"), Call("c1") >> }

\* response.choices[0].message of the first request: plain text (or None), or
\* tool calls, which come without content or, for one of them, with it
ModelResponses ==
    { r \in [content : ModelContents, tool_calls : ToolCallLists] :
        \/ r.tool_calls = <<>>
        \/ r.content = Null
        \/ /\ r.content = <<"b", " ">>
           /\ Len(r.tool_calls) = 1
           /\ r.tool_calls[1].id = "c1" }

NoResponse == [content |-> Null, tool_calls |-> <<>>]

\* ------------------------------------------------------------------- state
VARIABLES
    store,            \* the table conversations, in rowid order
    clock,            \* CURRENT_TIMESTAMP, in seconds
    active,           \* the callers of this run
    turns,            \* calls of process_message made in this session
    pc,               \* where each caller is in process_message
    entry,            \* how the call came in: "ui" or "direct"
    user_input,       \* the utterance; process_message's argument once called
    conversation_id,  \* the local conversation_id; 0 while not in locals()
    api_messages,     \* the local api_messages
    response_message, \* the first response's message
    tool_results,     \* the local tool_results
    tool_index,       \* position of the for loop over tool_calls
    answer,           \* the local answer
    exc,              \* the exception on its way to the except clause
    result,           \* what process_message returned (Null: nothing yet)
    escaped,          \* an exception left process_message
    ui_response,      \* what process_user_query returned
    requests,         \* the model requests of the turn, as sent
    dispatched,       \* ids of the invocations execute_tool_call was called on
    handled,          \* <<id, handler>> of the adapter calls made
    created,          \* ids of the rows this turn inserted
    store_faults,     \* store operations of this turn that raised
    rows_at_call,     \* rows in the store when the call came in
    steps,            \* the steps of the turn so far, in the order taken
    db_call,          \* the last direct call of a FALCONDatabase method
    rt                \* the last direct call of a tool adapter, as far as it got

turn_vars == << pc, entry, user_input, rows_at_call, conversation_id, api_messages,
                response_message, tool_results, tool_index, answer, exc, result,
                escaped, ui_response, requests, dispatched, handled, created,
                store_faults, steps >>

vars == << store, clock, active, turns, turn_vars, db_call, rt >>

\* the limit process_message passes to get_conversation_history
HistoryLimit == 20

system_instructions == <<"FALCON system instructions">>

\* get_real_time_info(), formatted into the second system message
TimeInfo(now) == <<"Current time info: ", ToString(now)>>

NoInputResponse == <<"I didn't quite catch that. Could you say it again?">>
IssueResponse ==
    <<"I encountered an issue while processing your request. Please try again.">>

\* f"An error occurred: {str(e)}"
ErrorMsg(reason) == <<"An error occurred: ", reason>>

\* the fixed texts that hold one of process_user_query's error_indicators
IndicatorTexts == {"An error occurred: "}
ContainsIndicator(text) == \E i \in DOMAIN text : text[i] \in IndicatorTexts

ShouldSpeak(text) == ~(~Truthy(text) \/ ContainsIndicator(text))

NoUiResponse == [response |-> Null, should_speak |-> FALSE]

\* a direct call of a store method: its arguments, what it returned and the
\* exception that left it
DbCall(op, id, user, assistant, limit, reply, error) ==
    [op |-> op, id |-> id, user |-> user, assistant |-> assistant,
     limit |-> limit, reply |-> reply, error |-> error]

NoCall == DbCall("none", 0, Null, Null, NoLimit, <<>>, NoError)

\* no adapter was called
NoTask ==
    [pc |-> "idle", adapter |-> "", argument |-> Null, response |-> Null,
     code |-> Null, model_calls |-> 0, executed |-> <<>>, failure |-> "",
     status |-> Null, escaped |-> FALSE]

InitTurns ==
    /\ pc = [t \in Procs |-> "idle"]
    /\ entry = [t \in Procs |-> "none"]
    /\ user_input = [t \in Procs |-> Null]
    /\ conversation_id = [t \in Procs |-> 0]
    /\ api_messages = [t \in Procs |-> <<>>]
    /\ response_message = [t \in Procs |-> NoResponse]
    /\ tool_results = [t \in Procs |-> <<>>]
    /\ tool_index = [t \in Procs |-> 0]
    /\ answer = [t \in Procs |-> Null]
    /\ exc = [t \in Procs |-> ""]
    /\ result = [t \in Procs |-> Null]
    /\ escaped = [t \in Procs |-> FALSE]
    /\ ui_response = [t \in Procs |-> NoUiResponse]
    /\ requests = [t \in Procs |-> <<>>]
    /\ dispatched = [t \in Procs |-> <<>>]
    /\ handled = [t \in Procs |-> <<>>]
    /\ created = [t \in Procs |-> <<>>]
    /\ store_faults = [t \in Procs |-> 0]
    /\ rows_at_call = [t \in Procs |-> 0]
    /\ steps = [t \in Procs |-> <<>>]

\* the database file outlives the process: CREATE TABLE IF NOT EXISTS finds
\* the table empty, or with the rows of earlier sessions (a completed
\* exchange; a draft whose turn never wrote its reply)
InitialStores ==
    { <<>>,
      << Row(1, <<"a">>, <<"b">>, 0) >>,
      << Row(1, <<"a">>, Null, 0) >> }

Init ==
    /\ store \in InitialStores
    /\ clock = 0
    /\ active = {1}
    /\ turns = 0
    /\ db_call = NoCall
    /\ rt = NoTask
    /\ InitTurns

\* the locals of a fresh call
Fresh(t, how, u, at) ==
    /\ pc' = [pc EXCEPT ![t] = at]
    /\ entry' = [entry EXCEPT ![t] = how]
    /\ user_input' = [user_input EXCEPT ![t] = u]
    /\ conversation_id' = [conversation_id EXCEPT ![t] = 0]
    /\ api_messages' = [api_messages EXCEPT ![t] = <<>>]
    /\ response_message' = [response_message EXCEPT ![t] = NoResponse]
    /\ tool_results' = [tool_results EXCEPT ![t] = <<>>]
    /\ tool_index' = [tool_index EXCEPT ![t] = 0]
    /\ answer' = [answer EXCEPT ![t] = Null]
    /\ exc' = [exc EXCEPT ![t] = ""]
    /\ result' = [result EXCEPT ![t] = Null]
    /\ escaped' = [escaped EXCEPT ![t] = FALSE]
    /\ requests' = [requests EXCEPT ![t] = <<>>]
    /\ dispatched' = [dispatched EXCEPT ![t] = <<>>]
    /\ handled' = [handled EXCEPT ![t] = <<>>]
    /\ created' = [created EXCEPT ![t] = <<>>]
    /\ store_faults' = [store_faults EXCEPT ![t] = 0]
    /\ rows_at_call' = [rows_at_call EXCEPT ![t] = Len(store)]
    /\ steps' = [steps EXCEPT ![t] = <<>>]

\* one more step of the turn was taken
Step(t, label) == steps' = [steps EXCEPT ![t] = Append(@, label)]

Resting(t) == pc[t] \in {"idle", "done"}

\* the wall clock advances
Tick ==
    /\ clock < MaxClock
    /\ clock' = clock + 1
    /\ UNCHANGED << store, active, turns, turn_vars, db_call, rt >>

\* process_message returns value, or lets an exception out; process_user_query,
\* when it made the call, wraps either into its reply
Finish(t, value, esc) ==
    /\ pc' = [pc EXCEPT ![t] = "done"]
    /\ result' = [result EXCEPT ![t] = value]
    /\ escaped' = [escaped EXCEPT ![t] = esc]
    /\ ui_response' = [ui_response EXCEPT ![t] =
          IF entry[t] # "ui" THEN NoUiResponse
          ELSE IF esc THEN [response |-> IssueResponse, should_speak |-> TRUE]
          ELSE [response |-> value, should_speak |-> ShouldSpeak(value)]]

\* an exception raised inside the try block
Throw(t, reason) ==
    /\ pc' = [pc EXCEPT ![t] = "except"]
    /\ exc' = [exc EXCEPT ![t] = reason]

\* eel entry: the empty-input check, then the call of process_message
ProcessUserQuery(t, u) ==
    /\ Resting(t)
    /\ IF Strip(u) = <<>>
       THEN /\ Fresh(t, "ui", u, "done")
            /\ ui_response' = [ui_response EXCEPT ![t] =
                  [response |-> NoInputResponse, should_speak |-> TRUE]]
            /\ UNCHANGED turns
       ELSE /\ turns < MaxTurns
            /\ turns' = turns + 1
            /\ Fresh(t, "ui", u, "add")
            /\ ui_response' = [ui_response EXCEPT ![t] = NoUiResponse]
    /\ UNCHANGED << store, clock, active, db_call, rt >>

\* the command-line loop and chat_with_assistant call process_message as typed
ProcessMessage(t, u) ==
    /\ Resting(t)
    /\ turns < MaxTurns
    /\ turns' = turns + 1
    /\ Fresh(t, "direct", u, "add")
    /\ ui_response' = [ui_response EXCEPT ![t] = NoUiResponse]
    /\ UNCHANGED << store, clock, active, db_call, rt >>

\* conversation_id = self.db.add_conversation(user_input)
AddConversation(t) ==
    /\ pc[t] = "add"
    /\ \/ /\ store' = add_conversation(store, user_input[t], Null, clock)
          /\ conversation_id' = [conversation_id EXCEPT ![t] = NextId(store)]
          /\ created' = [created EXCEPT ![t] = Append(@, NextId(store))]
          /\ pc' = [pc EXCEPT ![t] = "history"]
          /\ Step(t, "append")
          /\ UNCHANGED << exc, store_faults >>
       \/ /\ Throw(t, "OperationalError")
          /\ store_faults' = [store_faults EXCEPT ![t] = @ + 1]
          /\ UNCHANGED << store, conversation_id, created, steps >>
    /\ UNCHANGED << clock, active, turns, db_call, rt, entry, user_input, rows_at_call, api_messages,
                    response_message, tool_results, tool_index, answer, result,
                    escaped, ui_response, requests, dispatched, handled >>

\* the context built and the request sent with no draft row appended first
BuildContextBeforeAppend(t) ==
    /\ pc[t] = "add"
    /\ api_messages' = [api_messages EXCEPT ![t] =
          << Message("system", system_instructions),
             Message("system", TimeInfo(clock)) >>
          \o get_conversation_history(store, HistoryLimit)
          \o << Message("user", user_input[t]) >>]
    /\ pc' = [pc EXCEPT ![t] = "request1"]
    /\ Step(t, "history")
    /\ UNCHANGED << store, clock, active, turns, db_call, rt, entry, user_input,
                    rows_at_call, conversation_id, response_message, tool_results,
                    tool_index, answer, exc, result, escaped, ui_response, requests,
                    dispatched, handled, created, store_faults >>

\* messages = get_conversation_history(limit=20); api_messages = [...]
BuildContext(t) ==
    /\ pc[t] = "history"
    /\ \/ /\ api_messages' = [api_messages EXCEPT ![t] =
                << Message("system", system_instructions),
                   Message("system", TimeInfo(clock)) >>
                \o get_conversation_history(store, HistoryLimit)
                \o << Message("user", user_input[t]) >>]
          /\ pc' = [pc EXCEPT ![t] = "request1"]
          /\ Step(t, "history")
          /\ UNCHANGED << exc, store_faults >>
       \/ /\ Throw(t, "OperationalError")
          /\ store_faults' = [store_faults EXCEPT ![t] = @ + 1]
          /\ UNCHANGED << api_messages, steps >>
    /\ UNCHANGED << store, clock, active, turns, db_call, rt, entry, user_input, rows_at_call,
                    conversation_id, response_message, tool_results, tool_index,
                    answer, result, escaped, ui_response, requests, dispatched,
                    handled, created >>

\* one request as sent to the model
Request(messages, schema) == [messages |-> messages, tools |-> schema]

\* answer = <message>.content.strip(): None has no strip
TakeAnswer(t, content) ==
    IF content = Null
    THEN /\ Throw(t, "AttributeError")
         /\ UNCHANGED answer
    ELSE /\ answer' = [answer EXCEPT ![t] = Strip(content)]
         /\ pc' = [pc EXCEPT ![t] = "update"]
         /\ UNCHANGED exc

\* the first request, with the tool schema, and the branch on tool_calls
FirstRequest(t) ==
    /\ pc[t] = "request1"
    /\ requests' = [requests EXCEPT ![t] = Append(@, Request(api_messages[t], tools))]
    /\ Step(t, "request1")
    /\ \/ \E r \in ModelResponses :
            /\ response_message' = [response_message EXCEPT ![t] = r]
            /\ IF r.tool_calls # <<>>
               THEN /\ pc' = [pc EXCEPT ![t] = "tools"]
                    /\ tool_index' = [tool_index EXCEPT ![t] = 1]
                    /\ UNCHANGED << answer, exc >>
               ELSE /\ TakeAnswer(t, r.content)
                    /\ UNCHANGED tool_index
       \/ /\ Throw(t, "APIError")
          /\ UNCHANGED << response_message, tool_index, answer >>
    /\ UNCHANGED << store, clock, active, turns, db_call, rt, entry, user_input, rows_at_call,
                    conversation_id, api_messages, tool_results, result, escaped,
                    ui_response, dispatched, handled, created, store_faults >>

\* the assistant message that records the model's tool calls
ToolCallRecord(message) ==
    [role |-> "assistant",
     content |-> IF Truthy(message.content) THEN message.content ELSE <<>>,
     tool_call_id |-> "",
     tool_calls |-> message.tool_calls]

ToolResult(tool_call, text) ==
    [role |-> "tool", content |-> text, tool_call_id |-> tool_call.id,
     tool_calls |-> <<>>]

\* a dispatch that files what the handler returned in the turn's row
ExecuteToolCallStoring(t) ==
    /\ pc[t] = "tools"
    /\ LET tool_call == response_message[t].tool_calls[tool_index[t]]
           out == execute_tool_call(tool_call, "ok")
       IN  /\ out.raised = ""
           /\ store' = update_assistant_response(store, conversation_id[t], out.text)
           /\ dispatched' = [dispatched EXCEPT ![t] = Append(@, tool_call.id)]
    /\ Step(t, "dispatch")
    /\ pc' = [pc EXCEPT ![t] = "request2"]
    /\ UNCHANGED << clock, active, turns, db_call, rt, entry, user_input, rows_at_call,
                    conversation_id, api_messages, response_message, tool_results,
                    tool_index, answer, exc, result, escaped, ui_response, requests,
                    handled, created, store_faults >>

\* one pass of the for loop; after the last one the record and the results
\* are appended to api_messages
ExecuteToolCall(t) ==
    /\ pc[t] = "tools"
    /\ LET tool_call == response_message[t].tool_calls[tool_index[t]]
       IN  \E collab \in CollaboratorOutcomes :
             LET out == execute_tool_call(tool_call, collab)
                 results == Append(tool_results[t], ToolResult(tool_call, out.text))
             IN  /\ dispatched' = [dispatched EXCEPT ![t] = Append(@, tool_call.id)]
                 /\ Step(t, "dispatch")
                 /\ handled' = [handled EXCEPT ![t] =
                       IF out.handler # ""
                       THEN Append(@, <<tool_call.id, out.handler>>) ELSE @]
                 /\ IF out.raised # ""
                    THEN /\ Throw(t, out.raised)
                         /\ UNCHANGED << tool_results, tool_index, api_messages >>
                    ELSE /\ tool_results' = [tool_results EXCEPT ![t] = results]
                         /\ UNCHANGED exc
                         /\ IF tool_index[t] < Len(response_message[t].tool_calls)
                            THEN /\ tool_index' = [tool_index EXCEPT ![t] = @ + 1]
                                 /\ UNCHANGED << pc, api_messages >>
                            ELSE /\ api_messages' = [api_messages EXCEPT ![t] =
                                       Append(@, ToolCallRecord(response_message[t]))
                                       \o results]
                                 /\ pc' = [pc EXCEPT ![t] = "request2"]
                                 /\ UNCHANGED tool_index
    /\ UNCHANGED << store, clock, active, turns, db_call, rt, entry, user_input, rows_at_call,
                    conversation_id, response_message, answer, result, escaped,
                    ui_response, requests, created, store_faults >>

\* the second request, without a tool schema
SecondRequest(t) ==
    /\ pc[t] = "request2"
    /\ requests' = [requests EXCEPT ![t] = Append(@, Request(api_messages[t], <<>>))]
    /\ Step(t, "request2")
    /\ \/ \E content \in ModelContents : TakeAnswer(t, content)
       \/ /\ Throw(t, "APIError")
          /\ UNCHANGED answer
    /\ UNCHANGED << store, clock, active, turns, db_call, rt, entry, user_input, rows_at_call,
                    conversation_id, api_messages, response_message, tool_results,
                    tool_index, result, escaped, ui_response, dispatched, handled,
                    created, store_faults >>

\* self.db.update_assistant_response(conversation_id, answer); return answer
StoreAnswer(t) ==
    /\ pc[t] = "update"
    /\ \/ /\ store' = update_assistant_response(store, conversation_id[t], answer[t])
          /\ Finish(t, answer[t], FALSE)
          /\ Step(t, "write")
          /\ UNCHANGED << exc, store_faults >>
       \/ /\ Throw(t, "OperationalError")
          /\ store_faults' = [store_faults EXCEPT ![t] = @ + 1]
          /\ UNCHANGED << store, result, escaped, ui_response, steps >>
    /\ UNCHANGED << clock, active, turns, db_call, rt, entry, user_input, rows_at_call, conversation_id,
                    api_messages, response_message, tool_results, tool_index,
                    answer, requests, dispatched, handled, created >>

\* except Exception as e: the error text is stored if the row exists, and returned
HandleException(t) ==
    /\ pc[t] = "except"
    /\ LET error_msg == ErrorMsg(exc[t])
       IN  IF conversation_id[t] # 0
           THEN \/ /\ store' = update_assistant_response(store, conversation_id[t],
                                                         error_msg)
                   /\ Finish(t, error_msg, FALSE)
                   /\ Step(t, "write")
                   /\ UNCHANGED store_faults
                \/ /\ Finish(t, Null, TRUE)
                   /\ store_faults' = [store_faults EXCEPT ![t] = @ + 1]
                   /\ UNCHANGED << store, steps >>
           ELSE /\ Finish(t, error_msg, FALSE)
                /\ UNCHANGED << store, store_faults, steps >>
    /\ UNCHANGED << clock, active, turns, db_call, rt, entry, user_input, rows_at_call, conversation_id,
                    api_messages, response_message, tool_results, tool_index,
                    answer, exc, requests, dispatched, handled, created >>

Next ==
    \/ Tick
    \/ \E t \in active, u \in Utterances : ProcessUserQuery(t, u)
    \/ \E t \in active, u \in Utterances : ProcessMessage(t, u)
    \/ \E t \in active : AddConversation(t)
    \/ \E t \in active : BuildContext(t)
    \/ \E t \in active : FirstRequest(t)
    \/ \E t \in active : ExecuteToolCall(t)
    \/ \E t \in active : SecondRequest(t)
    \/ \E t \in active : StoreAnswer(t)
    \/ \E t \in active : HandleException(t)

Spec == Init /\ [][Next]_vars

\* ------------------------------------------------------------ one turn
\* One call of an entry point, on a database file as earlier sessions may have
\* left it: empty, or with completed exchanges (one of them with an empty
\* reply, two of the same second) and drafts in it.
TurnStores ==
    InitialStores
    \cup { << Row(1, <<"a">>, <<"b">>, 0), Row(2, <<"c">>, <<"d">>, 0) >>,
           << Row(1, <<"c">>, Null, 0), Row(2, <<"a">>, <<"b">>, 1) >>,
           << Row(1, <<"a">>, <<>>, 0), Row(2, <<"a">>, <<"b">>, 0) >> }

InitTurn ==
    /\ store \in TurnStores
    /\ clock = IF store = <<>> THEN 0 ELSE store[Len(store)].timestamp
    /\ active = {1}
    /\ turns = 0
    /\ db_call = NoCall
    /\ rt = NoTask
    /\ InitTurns

NextTurn ==
    \/ Tick
    \/ \E t \in active, u \in Utterances : pc[t] = "idle" /\ ProcessUserQuery(t, u)
    \/ \E t \in active, u \in Utterances : pc[t] = "idle" /\ ProcessMessage(t, u)
    \/ \E t \in active : AddConversation(t)
    \/ \E t \in active : BuildContext(t)
    \/ \E t \in active : FirstRequest(t)
    \/ \E t \in active : ExecuteToolCall(t)
    \/ \E t \in active : SecondRequest(t)
    \/ \E t \in active : StoreAnswer(t)
    \/ \E t \in active : HandleException(t)

SpecTurn == InitTurn /\ [][NextTurn]_vars

\* ------------------------------------------------------- concurrent turns
\* Every caller is a thread in process_message on the one database file.
\* Each store method opens its own connection and commits before it returns,
\* and SQLite lets one writer in at a time: a store method is one step.
\* what caller t says: neighbours say different things
ConcurrentUtterance(t) == IF t % 2 = 1 THEN <<"a">> ELSE <<"c">>

\* what the model answers while several turns run: text
ConcurrentResponses ==
    { r \in ModelResponses : r.tool_calls = <<>> /\ r.content = <<"b", " ">> }

\* a caller's one call of process_message
ConcurrentCall(t) ==
    /\ pc[t] = "idle"
    /\ turns' = turns + 1
    /\ Fresh(t, "direct", ConcurrentUtterance(t), "add")
    /\ ui_response' = [ui_response EXCEPT ![t] = NoUiResponse]
    /\ UNCHANGED << store, clock, active, db_call, rt >>

InitConcurrent ==
    /\ store \in InitialStores
    /\ clock = 0
    /\ active = Procs
    /\ turns = 0
    /\ db_call = NoCall
    /\ rt = NoTask
    /\ InitTurns

\* no store operation raises
NoStoreFault == store_faults' = store_faults

\* the turns run within one second and their store operations succeed (what
\* a failing one does to a turn is seen under Spec); the model answers with
\* text, or the request fails
NextConcurrent ==
    \/ \E t \in active : ConcurrentCall(t)
    \/ \E t \in active : AddConversation(t) /\ NoStoreFault
    \/ \E t \in active : BuildContext(t) /\ NoStoreFault
    \/ \E t \in active :
          FirstRequest(t) /\ response_message'[t] \in ConcurrentResponses \cup {NoResponse}
    \/ \E t \in active : StoreAnswer(t) /\ NoStoreFault
    \/ \E t \in active : HandleException(t) /\ NoStoreFault

SpecConcurrent == InitConcurrent /\ [][NextConcurrent]_vars

\* ------------------------------------------------- the store, called directly
\* texts a caller of the store may write
StoreUserTexts == { <<"a">>, <<"c">> }
StoreAssistantTexts == { <<>>, <<"b">>, <<"d">> }
StoreLimits == { NoLimit, 1, 2 }

\* db.add_conversation(u)
StoreAdd(u) ==
    /\ Len(store) < MaxStoreRows
    /\ store' = add_conversation(store, u, Null, clock)
    /\ db_call' = DbCall("add", NextId(store), u, Null, NoLimit, <<>>, NoError)
    /\ UNCHANGED << clock, active, turns, turn_vars, rt >>

\* db.update_assistant_response(id, a), on any id: the statement runs and is
\* committed whatever number of rows it matched, and the method returns
StoreComplete(id, a) ==
    /\ store' = update_assistant_response(store, id, a)
    /\ db_call' = DbCall("update", id, Null, a, NoLimit, <<>>,
                         update_error(store, id))
    /\ UNCHANGED << clock, active, turns, turn_vars, rt >>

\* db.get_conversation_history(limit)
StoreHistory(limit) ==
    /\ db_call' = DbCall("history", 0, Null, Null, limit,
                         get_conversation_history(store, limit), NoError)
    /\ UNCHANGED << store, clock, active, turns, turn_vars, rt >>

\* keywords a caller may search for
SearchKeywords == { <<>>, <<"a">>, <<"A">>, <<"b">>, <<"_">>, <<"%">> }

\* db.search_conversations(keyword)
StoreSearch(keyword) ==
    /\ db_call' = DbCall("search", 0, keyword, Null, NoLimit,
                         search_conversations(store, keyword), NoError)
    /\ UNCHANGED << store, clock, active, turns, turn_vars, rt >>

\* add_conversation(u), then update_assistant_response(id, a) on the id it
\* returned, then get_conversation_history(limit=1), with no call in between
RoundTrip(u, a) ==
    /\ Len(store) < MaxStoreRows
    /\ LET conversation == NextId(store)
           written == update_assistant_response(
                          add_conversation(store, u, Null, clock), conversation, a)
       IN  /\ store' = written
           /\ db_call' = DbCall("roundtrip", conversation, u, a, 1,
                                get_conversation_history(written, 1), NoError)
    /\ UNCHANGED << clock, active, turns, turn_vars, rt >>

NextStore ==
    \/ Tick
    \/ \E u \in StoreUserTexts : StoreAdd(u)
    \/ \E id \in 1..(MaxStoreRows + 1), a \in StoreAssistantTexts :
          StoreComplete(id, a)
    \/ \E limit \in StoreLimits : StoreHistory(limit)
    \/ \E keyword \in SearchKeywords : StoreSearch(keyword)
    \/ \E u \in StoreUserTexts, a \in StoreAssistantTexts : RoundTrip(u, a)

SpecStore == Init /\ [][NextStore]_vars

\* ------------------------------------------- the history of a long-used store
\* a store of n completed exchanges, the k-th of which stands out: by its user
\* text, or by still being a draft; rows up to the k-th are of second 0
LongStore(n, k, kind) ==
    [i \in 1..n |->
        Row(i,
            IF i = k /\ kind = "text" THEN <<"c">> ELSE <<"a">>,
            IF i = k /\ kind = "draft" THEN Null ELSE <<"b">>,
            IF i <= k THEN 0 ELSE 1)]

LongStores ==
    { LongStore(n, k, kind) : n \in 0..MaxHistRows, k \in 0..MaxHistRows,
                              kind \in {"text", "draft"} }

HistoryLimits == { NoLimit, 1, HistoryLimit }

InitHistory ==
    /\ store \in LongStores
    /\ clock = 1
    /\ active = {1}
    /\ turns = 0
    /\ db_call = NoCall
    /\ rt = NoTask
    /\ InitTurns

NextHistory == \E limit \in HistoryLimits : StoreHistory(limit)

SpecHistory == InitHistory /\ [][NextHistory]_vars

\* --------------------------------------- the task executor and the adapters
\* A model response and the code in it are sequences of tokens: words,
\* punctuation, whitespace, and the fences that mark code in a response.
\* re.IGNORECASE: the token, lower-cased
Lower(tok) ==
    CASE tok = "RM" -> "rm"
      [] tok = "Eval" -> "eval"
      [] tok = "/S" -> "/s"
      [] tok = "C:" -> "c:"
      [] tok = "'W" -> "'w"
      [] OTHER -> tok

\* one element of a pattern: the tokens it accepts, and how many of them
Lit(toks) == [rep |-> "one", class |-> "lit", toks |-> toks]
WsPlus == [rep |-> "plus", class |-> "ws", toks |-> {}]
WsStar == [rep |-> "star", class |-> "ws", toks |-> {}]
NotCloseStar == [rep |-> "star", class |-> "not", toks |-> {")"}]

Accepts(e, tok) ==
    CASE e.class = "lit" -> Lower(tok) \in e.toks
      [] e.class = "ws" -> IsWhitespace(tok)
      [] e.class = "not" -> tok \notin e.toks

\* the pattern matches a prefix of s
RECURSIVE MatchAt(_, _)
MatchAt(p, s) ==
    IF p = <<>> THEN TRUE
    ELSE LET e == Head(p)
         IN  CASE e.rep = "one" ->
                    /\ s # <<>>
                    /\ Accepts(e, Head(s))
                    /\ MatchAt(Tail(p), Tail(s))
               [] e.rep = "star" ->
                    \/ MatchAt(Tail(p), s)
                    \/ /\ s # <<>>
                       /\ Accepts(e, Head(s))
                       /\ MatchAt(p, Tail(s))
               [] e.rep = "plus" ->
                    /\ s # <<>>
                    /\ Accepts(e, Head(s))
                    /\ MatchAt(<< [e EXCEPT !.rep = "star"] >> \o Tail(p), Tail(s))

\* re.search(pattern, code, re.IGNORECASE): a match starting anywhere
re_search(p, s) == \E i \in 1..(Len(s) + 1) : MatchAt(p, SubSeq(s, i, Len(s)))

dangerous_patterns ==
    << << Lit({"rm"}), WsPlus, Lit({"-rf"}) >>,
       << Lit({"del"}), WsPlus, Lit({"/f", "/s"}) >>,
       << Lit({"format"}), WsPlus, Lit({"c:"}) >>,
       << Lit({"__import__"}), WsStar, Lit({"("}), WsStar, Lit({"'os'"}) >>,
       << Lit({"eval"}), WsStar, Lit({"("}) >>,
       << Lit({"exec"}), WsStar, Lit({"("}) >>,
       << Lit({"open"}), WsStar, Lit({"("}), NotCloseStar, Lit({"'w", "'a"}) >> >>

validate_code_safety(code) ==
    \A k \in DOMAIN dangerous_patterns : ~re_search(dangerous_patterns[k], code)

\* exec is reached whatever the code holds
execute_unvalidated(code) == Truthy(code)

\* execute_python_code: exec(code, exec_globals) is reached
execute_python_code(code) == Truthy(code) /\ validate_code_safety(code)

\* how the executed code ends: it returns, it raises an Exception (caught in
\* execute_python_code), or it ends the interpreter (SystemExit is no Exception)
ExecOutcomes == { "ok", "raise", "exit" }

\* the marks of code in a response: a fence with the newline after it, the
\* newline and fence that end a block, one backtick
FencePython == "[fence]python[newline]"
Fence == "[fence][newline]"
FenceEnd == "[newline][fence]"
Backtick == "[backtick]"

\* the first position at or after i of a token of toks in s; 0 if there is none
RECURSIVE Find(_, _, _)
Find(s, toks, i) ==
    IF i > Len(s) THEN 0
    ELSE IF s[i] \in toks THEN i
    ELSE Find(s, toks, i + 1)

\* re.findall(open (.*?) close, re.DOTALL)[0]: what stands between the first
\* opening fence and the first closing fence after it; Null without a match
Between(s, open, close) ==
    LET i == Find(s, {open}, 1)
        j == IF i = 0 THEN 0 ELSE Find(s, {close}, i + 1)
    IN  IF j = 0 THEN Null ELSE SubSeq(s, i + 1, j - 1)

\* re.findall of the third pattern, [0]: one or more tokens, none a backtick,
\* between two backticks
RECURSIVE Inline(_, _)
Inline(s, from) ==
    LET i == Find(s, {Backtick}, from)
        j == IF i = 0 THEN 0 ELSE Find(s, {Backtick}, i + 1)
    IN  IF j = 0 THEN Null
        ELSE IF j = i + 1 THEN Inline(s, j)
        ELSE SubSeq(s, i + 1, j - 1)

extract_code_from_response(response) ==
    IF ~Truthy(response) THEN Null
    ELSE LET python == Between(response, FencePython, FenceEnd)
             fenced == Between(response, Fence, FenceEnd)
             inline == Inline(response, 1)
         IN  IF python # Null THEN Strip(python)
             ELSE IF fenced # Null THEN Strip(fenced)
             ELSE IF inline # Null THEN Strip(inline)
             ELSE Null

\* code the model may write
Codes ==
    { <<"print">>, <<"rm", " ", "-rf">>, <<"RM", " ", " ", "-rf">>,
      <<"rm", "-rf">>, <<"del", " ", "/S">>, <<"format", " ", "C:">>,
      << "__import__", "(", " ", "'os'", ")" >>, <<"Eval", "(">>,
      <<"x", "exec", " ", "(">>, << "open", "(", "x", "'W", ")" >>,
      <<"open", "(", ")", "'w">>, <<"eval">> }

\* message.content of the task model's response: None, nothing, prose, or
\* code in one of the three forms, alone or after prose and padded
TaskResponses ==
    { Null, <<>>, <<" ">>, <<"x">>, <<FencePython, " ", FenceEnd>>, <<Backtick, Backtick>> }
    \cup { <<FencePython>> \o c \o <<FenceEnd>> : c \in Codes }
    \cup { <<"x", Fence, " ">> \o c \o <<" ", FenceEnd>> : c \in Codes }
    \cup { <<Backtick>> \o c \o <<Backtick>> : c \in Codes }

\* not a str: a JSON number, true, a list
NotAString == <<"NOT A STRING">>

\* task_description as the model may give it
Tasks == { <<>>, <<" ">>, <<"x">>, NotAString }

\* the adapter returned status
TaskReturn(frame, failure, status) ==
    [frame EXCEPT !.pc = "returned", !.failure = failure, !.status = status]

\* the last adapter call is over
TaskResting == rt.pc \in {"idle", "returned"}

\* assistant.execute_system_task(task): run_task up to the model request
CallSystemTask(task) ==
    /\ TaskResting
    /\ LET frame == [NoTask EXCEPT !.adapter = "execute_system_task",
                                   !.argument = task]
       IN  rt' = IF task = NotAString
                 THEN TaskReturn(frame, "AttributeError",
                                 execute_system_task(task, "raise"))
                 ELSE IF Strip(task) = <<>>
                 THEN TaskReturn(frame, "", execute_system_task(task, "ok"))
                 ELSE [frame EXCEPT !.pc = "execute_task"]
    /\ UNCHANGED << store, clock, active, turns, turn_vars, db_call >>

\* execute_task: the request, content.strip(), any exception made None;
\* run_task returns on a falsy response
ExecuteTask ==
    /\ rt.pc = "execute_task"
    /\ \E content \in TaskResponses, fault \in BOOLEAN :
          LET response == IF fault \/ content = Null THEN Null ELSE Strip(content)
              called == [rt EXCEPT !.model_calls = @ + 1, !.response = response]
          IN  rt' = IF ~Truthy(response)
                    THEN TaskReturn(called, "model call",
                                    execute_system_task(rt.argument, "ok"))
                    ELSE [called EXCEPT !.pc = "extract"]
    /\ UNCHANGED << store, clock, active, turns, turn_vars, db_call >>

\* extract_code_from_response; run_task returns on falsy code
ExtractCode ==
    /\ rt.pc = "extract"
    /\ LET code == extract_code_from_response(rt.response)
           extracted == [rt EXCEPT !.code = code]
       IN  rt' = IF ~Truthy(code)
                 THEN TaskReturn(extracted, "no code",
                                 execute_system_task(rt.argument, "ok"))
                 ELSE [extracted EXCEPT !.pc = "execute"]
    /\ UNCHANGED << store, clock, active, turns, turn_vars, db_call >>

\* execute_python_code, and run_task's return ""
ExecuteCode ==
    /\ rt.pc = "execute"
    /\ IF execute_python_code(rt.code)
       THEN \E outcome \in ExecOutcomes :
               LET ran == [rt EXCEPT !.executed = Append(@, rt.code)]
               IN  rt' = IF outcome = "exit"
                         THEN [ran EXCEPT !.pc = "returned",
                                          !.failure = "SystemExit",
                                          !.escaped = TRUE]
                         ELSE TaskReturn(ran,
                                  IF outcome = "raise" THEN "code raised" ELSE "",
                                  execute_system_task(rt.argument, "ok"))
       ELSE rt' = TaskReturn(rt, "code rejected",
                             execute_system_task(rt.argument, "ok"))
    /\ UNCHANGED << store, clock, active, turns, turn_vars, db_call >>

\* ImageGenMain(prompt): what image_model.generate raises leaves Main
ImageOutcomes == { "ok", "generation error" }
ImageGenMain(outcome) == IF outcome = "generation error" THEN "raise" ELSE "ok"

\* Coder(topic): ContentGenerator() raises without an API key;
\* generate_content catches what the generation raises and returns None
CoderOutcomes == { "ok", "no api key", "generation error" }
Coder(outcome) == IF outcome = "no api key" THEN "raise" ELSE "ok"

Failure(outcome) == IF outcome = "ok" THEN "" ELSE outcome

\* assistant.generate_image(prompt)
CallGenerateImage(prompt) ==
    /\ TaskResting
    /\ \E outcome \in ImageOutcomes :
          rt' = TaskReturn([NoTask EXCEPT !.adapter = "generate_image",
                                          !.argument = prompt],
                           Failure(outcome),
                           generate_image(prompt, ImageGenMain(outcome)))
    /\ UNCHANGED << store, clock, active, turns, turn_vars, db_call >>

\* assistant.write_content(topic)
CallWriteContent(topic) ==
    /\ TaskResting
    /\ \E outcome \in CoderOutcomes :
          rt' = TaskReturn([NoTask EXCEPT !.adapter = "write_content",
                                          !.argument = topic],
                           Failure(outcome),
                           write_content(topic, Coder(outcome)))
    /\ UNCHANGED << store, clock, active, turns, turn_vars, db_call >>

NextTask ==
    \/ \E task \in Tasks : CallSystemTask(task)
    \/ ExecuteTask
    \/ ExtractCode
    \/ ExecuteCode
    \/ \E prompt \in Tasks \ {NotAString} : CallGenerateImage(prompt)
    \/ \E topic \in Tasks \ {NotAString} : CallWriteContent(topic)

SpecTask == Init /\ [][NextTask]_vars

\* ------------------------------------------------------------------ claims
\* process_message was entered by caller t's last call
CalledProcessMessage(t) ==
    \/ entry[t] = "direct"
    \/ entry[t] = "ui" /\ Strip(user_input[t]) # <<>>

\* what the caller of the entry point got back
Reply(t) == IF entry[t] = "ui" THEN ui_response[t].response ELSE result[t]

Ids(calls) == [i \in DOMAIN calls |-> calls[i].id]

C2_EmptyRejected ==
    \A t \in Procs :
        (entry[t] # "none" /\ Strip(user_input[t]) = <<>>)
        => /\ created[t] = <<>>
           /\ requests[t] = <<>>
           /\ pc[t] = "done" => Reply(t) = NoInputResponse

\* C3: a fault raised during a turn never leaves process_message: the call
\* returns "An error occurred: <reason>", and the turn's row, if it was
\* created, holds that text.
C3_FaultsContained ==
    \A t \in Procs :
        (pc[t] = "done" /\ exc[t] # "")
        => /\ ~escaped[t]
           /\ result[t] = ErrorMsg(exc[t])
           /\ conversation_id[t] # 0
                => store[conversation_id[t]].assistant = ErrorMsg(exc[t])

\* C4: when a turn has ended, by return or by a fault, no row it created is
\* left with a null assistant text.
C4_DraftCompleted ==
    \A t \in Procs :
        pc[t] = "done"
        => \A k \in DOMAIN created[t] : store[created[t][k]].assistant # Null

\* C5: an assistant text that is non-null is never changed by a later step.
C5_AssistantTextFinal ==
    [][ \A i \in DOMAIN store :
            store[i].assistant # Null => store'[i].assistant = store[i].assistant
      ]_vars

\* C6: execute_tool_call returns a text for every invocation it is called on,
\* and a turn that dispatched tools goes on to the second model request.
C6_DispatchReturnsText ==
    \A t \in Procs :
        /\ pc[t] # "tools" => Len(tool_results[t]) = Len(dispatched[t])
        /\ (pc[t] = "done" /\ dispatched[t] # <<>> /\ store_faults[t] = 0)
             => Len(requests[t]) = 2

\* C7: a turn makes at most two model requests; the second is made exactly
\* when the first response carried tool invocations, carries no tool schema,
\* and its text is the answer; a plain-text first response is stored (stripped)
\* with no tool dispatched and no second request.
C7_TwoRounds ==
    \A t \in Procs :
        (pc[t] = "done" /\ CalledProcessMessage(t) /\ store_faults[t] = 0)
        => /\ Len(requests[t]) <= 2
           /\ Len(requests[t]) = 2 <=> response_message[t].tool_calls # <<>>
           /\ Len(requests[t]) = 2 => requests[t][2].tools = <<>>
           /\ (Len(requests[t]) = 2 /\ exc[t] = "")
                => /\ result[t] = answer[t]
                   /\ store[conversation_id[t]].assistant = answer[t]
           /\ ( /\ Len(requests[t]) >= 1
                /\ exc[t] = ""
                /\ response_message[t].tool_calls = <<>> )
                => /\ dispatched[t] = <<>>
                   /\ Len(requests[t]) = 1
                   /\ store[conversation_id[t]].assistant
                        = Strip(response_message[t].content)

\* C8: once the tool loop of a turn is over, every invocation of the first
\* response was dispatched exactly once, in the order given, and a second
\* request ends with the tool-call record and the results in that order, each
\* with its invocation's id.
C8_DispatchInOrder ==
    \A t \in Procs :
        (pc[t] \in {"request2", "update", "except", "done"}
            /\ response_message[t].tool_calls # <<>>)
        => LET calls == response_message[t].tool_calls
               n == Len(calls)
           IN  /\ dispatched[t] = Ids(calls)
               /\ Len(requests[t]) = 2
                    => LET m == requests[t][2].messages
                       IN  /\ Len(m) >= n + 1
                           /\ m[Len(m) - n] = ToolCallRecord(response_message[t])
                           /\ \A i \in 1..n :
                                 /\ m[Len(m) - n + i].role = "tool"
                                 /\ m[Len(m) - n + i].tool_call_id = calls[i].id

\* the n most recently created completed exchanges, oldest first
MostRecent(st, n) ==
    LET done == Completed(st)
    IN  IF Len(done) > n THEN SubSeq(done, Len(done) - n + 1, Len(done)) ELSE done

\* C9: of a store with more than 20 completed exchanges,
\* get_conversation_history(limit=20) returns the 20 created last, oldest first.
C9_RecentWindow ==
    ( /\ db_call.op = "history"
      /\ db_call.limit = HistoryLimit
      /\ Len(Completed(store)) > HistoryLimit )
    => db_call.reply = FlattenRows(MostRecent(store, HistoryLimit))

\* C10: add_conversation(u), update_assistant_response(id, a) and
\* get_conversation_history(limit=1), one right after the other, give back
\* the exchange (u, a) just written (a not empty).
C10_RoundTrip ==
    (db_call.op = "roundtrip" /\ Truthy(db_call.assistant))
    => db_call.reply = << Message("user", db_call.user),
                          Message("assistant", db_call.assistant) >>


\* C11: update_assistant_response on an id that no row has fails with a
\* not-found error and leaves the store unchanged.
C11_MissingIdFails ==
    ( /\ db_call.op = "update"
      /\ ~\E i \in DOMAIN store : store[i].id = db_call.id )
    => db_call.error = "NotFoundError"

\* a status text that reports failure
IsFailureStatus(text) ==
    text # Null /\ text[1] \in { "Task execution failed: ", "Image generation failed: ",
                                 "Content generation failed: " }

\* C12: whenever the collaborator of an adapter fails (the model call fails,
\* no code is extracted, the code is rejected or raises, content or image
\* generation errs), the adapter returns a failure status, never a success
\* status, and nothing is raised to its caller.
C12_AdaptersReportFailure ==
    (rt.pc = "returned" /\ rt.failure # "")
    => (~rt.escaped /\ IsFailureStatus(rt.status))


\* user, assistant, user, assistant, ...
Alternating(messages) ==
    /\ Len(messages) % 2 = 0
    /\ \A i \in DOMAIN messages :
          messages[i].role = IF i % 2 = 1 THEN "user" ELSE "assistant"

\* C13: get_conversation_history returns only exchanges whose assistant text
\* is not null, as strictly alternating user / assistant entries: the entries
\* of the completed rows in order, two for each, and nothing of a draft row.
C13_HistoryAlternates ==
    db_call.op = "history"
    => /\ Alternating(db_call.reply)
       /\ Len(db_call.reply) = 2 * Len(Limit(Completed(store), db_call.limit))


\* keyword occurs in text as a substring, the case of letters ignored
Contains(text, keyword) ==
    /\ text # Null
    /\ \E i \in 1..(Len(text) + 1) :
          /\ i + Len(keyword) - 1 <= Len(text)
          /\ \A k \in DOMAIN keyword : Fold(text[i + k - 1]) = Fold(keyword[k])

\* C14: search_conversations(keyword) returns exactly the rows whose user
\* text or assistant text contains keyword as a literal case-insensitive
\* substring, newest first, for every keyword (one holding % or _ too) and
\* for draft rows, whose user text alone can match.
C14_SearchLiteral ==
    db_call.op = "search"
    => db_call.reply =
         Fetched(OrderByTimestampDesc(
             SelectSeq(store, LAMBDA r : \/ Contains(r.user, db_call.user)
                                         \/ Contains(r.assistant, db_call.user))))


\* the store as caller t's call found it, before the turn's own row
StoreAtCall(t) == SubSeq(store, 1, rows_at_call[t])

Stage(label) ==
    CASE label = "append" -> 1
      [] label = "history" -> 2
      [] label = "request1" -> 3
      [] label = "dispatch" -> 4
      [] label = "request2" -> 5
      [] label = "write" -> 6

\* caller t's own row holds an assistant text
OwnRowWritten(t) ==
    \E i \in DOMAIN created[t] : store[created[t][i]].assistant # Null

\* C16: the steps of a turn come in the order draft append, history read,
\* first model request, tool dispatches, second model request, store write of
\* the final text, each at most once but the dispatches; the draft row is in
\* the store before the first request is sent, and the row's assistant text
\* is written by the turn's last step only, after its last model request.
C16_StepsInOrder ==
    \A t \in Procs :
        /\ \A i, j \in DOMAIN steps[t] :
              i < j => \/ Stage(steps[t][i]) < Stage(steps[t][j])
                       \/ steps[t][i] = "dispatch" /\ steps[t][j] = "dispatch"
        /\ Len(requests[t]) >= 1
              => /\ Len(steps[t]) >= 3
                 /\ SubSeq(steps[t], 1, 3) = << "append", "history", "request1" >>
                 /\ created[t] # <<>>
                 /\ store[created[t][1]].user = user_input[t]
        /\ Len(requests[t]) = 2
              => \E i, j \in DOMAIN steps[t] :
                    i < j /\ steps[t][i] = "dispatch" /\ steps[t][j] = "request2"
        /\ OwnRowWritten(t)
              => /\ pc[t] = "done"
                 /\ steps[t][Len(steps[t])] = "write"

\* a turn went through every step, with two dispatches, and wrote its reply
C16_Witness ==
    \E t \in Procs :
        /\ pc[t] = "done"
        /\ steps[t] = << "append", "history", "request1", "dispatch", "dispatch",
                         "request2", "write" >>
        /\ store[created[t][1]].assistant = answer[t]


\* C17: exec is reached only for non-empty code that validate_code_safety
\* accepted, so code matching a deny-list pattern is never executed; and an
\* empty or whitespace-only task leads to no model call and no execution.
C17_ExecOnlyValidated ==
    /\ \A i \in DOMAIN rt.executed :
          /\ rt.executed[i] # <<>>
          /\ rt.executed[i] # Null
          /\ \A k \in DOMAIN dangerous_patterns :
                ~re_search(dangerous_patterns[k], rt.executed[i])
    /\ (rt.adapter = "execute_system_task" /\ Strip(rt.argument) = <<>>)
          => (rt.model_calls = 0 /\ rt.executed = <<>>)

\* run_task returned without executing code that matches a deny-list pattern
C17_Witness ==
    /\ rt.pc = "returned"
    /\ rt.model_calls = 1
    /\ rt.code = <<"RM", " ", " ", "-rf">>
    /\ rt.executed = <<>>


\* C18: however the steps of concurrent turns interleave, every turn has an
\* id of its own, its row holds its utterance and no text but the one the
\* turn itself stored, and the ids of the table grow strictly with the order
\* of creation, none used twice.
C18_TurnsKeepTheirRows ==
    /\ \A t \in Procs, o \in Procs :
          (t # o /\ conversation_id[t] # 0 /\ conversation_id[o] # 0)
          => conversation_id[t] # conversation_id[o]
    /\ \A t \in Procs :
          conversation_id[t] # 0
          => /\ conversation_id[t] \in DOMAIN store
             /\ store[conversation_id[t]].id = conversation_id[t]
             /\ store[conversation_id[t]].user = user_input[t]
             /\ store[conversation_id[t]].assistant =
                   IF pc[t] = "done" /\ ~escaped[t] THEN result[t] ELSE Null
    /\ \A i, j \in DOMAIN store : i < j => store[i].id < store[j].id

\* two turns overlapped: the one that appended its draft later has stored its
\* reply while the other, with another utterance, still waits to store its own
C18_Witness ==
    \E t \in Procs, o \in Procs :
        /\ pc[t] = "done" /\ ~escaped[t]
        /\ pc[o] = "update"
        /\ conversation_id[o] # 0
        /\ conversation_id[o] < conversation_id[t]
        /\ user_input[o] # user_input[t]
        /\ store[conversation_id[t]].assistant # Null


\* names and argument keys a tool invocation may carry
CandidateNames ==
    { "execute_system_task", "generate_image", "write_content", "play_music",
      "nonexistent_tool" }
CandidateKeys == { "task_description", "prompt", "topic", "subject", "song", "query" }

\* an invocation of name whose arguments hold every candidate key but those of without
Probe(name, without) ==
    ToolCall("probe", name,
             Arguments(TRUE, { <<k, <<"x">> >> : k \in CandidateKeys \ without }))

\* the names execute_tool_call routes to a handler
RoutedNames == { n \in CandidateNames : execute_tool_call(Probe(n, {}), "ok").handler = n }

\* the argument keys execute_tool_call reads for name: those it cannot do without
KeysRead(name) ==
    { k \in CandidateKeys : execute_tool_call(Probe(name, {k}), "ok").raised = "KeyError" }

\* C19: the names of the tool schema sent to the model are the names
\* execute_tool_call routes to a handler (execute_system_task,
\* generate_image, write_content), each tool declares one required parameter,
\* and that parameter is the argument key the dispatcher reads for it.
C19_SchemaMatchesDispatcher ==
    \A t \in Procs : \A i \in DOMAIN requests[t] :
        LET schema == requests[t][i].tools
        IN  schema # <<>>
            => /\ { schema[k].name : k \in DOMAIN schema } = RoutedNames
               /\ RoutedNames = { "execute_system_task", "generate_image", "write_content" }
               /\ \A k \in DOMAIN schema :
                     /\ Len(schema[k].required) = 1
                     /\ schema[k].properties = { schema[k].required[1] }
                     /\ KeysRead(schema[k].name) = { schema[k].required[1] }
               /\ \A k \in DOMAIN handled[t] :
                     \E m \in DOMAIN schema : schema[m].name = handled[t][k][2]

\* the schema was sent and two of its tools, invoked with their declared
\* parameter, reached their handlers
C19_Witness ==
    \E t \in Procs :
        /\ Len(requests[t]) >= 1
        /\ Len(requests[t][1].tools) = 3
        /\ Len(handled[t]) = 2
        /\ handled[t][1][2] # handled[t][2][2]


\* C20: a step that dispatches a tool invocation, whichever tool it names and
\* whether its handler succeeds, fails or is never reached, leaves every row
\* of the conversation store as it was.
C20_DispatchLeavesStore ==
    [][ (\E t \in Procs : Len(dispatched'[t]) > Len(dispatched[t])) => store' = store ]_vars

\* three invocations were dispatched, one of them to a handler that failed,
\* and the store still holds the rows the call found and the turn's draft
C20_Witness ==
    \E t \in Procs :
        /\ pc[t] = "request2"
        /\ Len(dispatched[t]) = 3
        /\ \E k \in DOMAIN tool_results[t] :
              tool_results[t][k].content[1] = "Task execution failed: "
        /\ Len(store) = rows_at_call[t] + 1
        /\ store[conversation_id[t]].assistant = Null


====
